---------------------------- MODULE Spec2Model ----------------------------
(***************************************************************************)
(* Model of the modelchimp client: modelchimp/__init__.py (class Tracker)  *)
(* together with the collaborators it drives: the module-level             *)
(* event_queue, the TrackerThread dispatcher, the WSConnectionThread       *)
(* streaming transport and the RestConnection bulk transport.              *)
(*                                                                         *)
(* Tracker is translated from src/modelchimp/__init__.py.  The dispatcher  *)
(* loop, its stop()/drain and the connection state machine live in         *)
(* tracker_thread.py / connection_thread.py; they are written here from    *)
(* sections 4.1-4.3 of the design text.                                    *)
(***************************************************************************)
EXTENDS Naturals, Integers, Sequences, FiniteSets, TLC

\* ------------------------------------------------------------------ bounds
\* Total number of event_queue.put calls explored.
MaxEvents == 4
\* Explicit calls of Tracker._on_end per tracker (the atexit hook is extra).
MaxExplicitEnd == 1
\* Events put by add_param / add_metric / add_duration_at_epoch / add_dataset_id.
MaxUserEvents == 1
\* Dispatcher: send attempts of one held event before it is dropped.
MaxSpins == 2
\* Ticks of the stop() drain deadline.
DrainDeadline == 1

\* Tracker instances built in the one process: experiments A and B.
Trackers == {"A", "B"}

\* ------------------------------------------------------- Python values
\* A Python value is its type tag and a printable content.
PyStr(s) == [ty |-> "str", v |-> s]
PyInt(s) == [ty |-> "int", v |-> s]
PyFloat(s) == [ty |-> "float", v |-> s]
NoneV == [ty |-> "none", v |-> ""]
ListV == [ty |-> "list", v |-> "[]"]

\* isinstance(x, str)
IsStr(x) == x.ty = "str"
\* isinstance(x, int) or isinstance(x, float)
IsNumber(x) == x.ty \in {"int", "float"}

\* Arguments user code passes.
Names == {PyStr("lr"), PyStr(""), PyInt("7")}
Values == {PyInt("1"), PyStr("hi")}
Epochs == {NoneV, PyFloat("1.5"), PyStr("e")}
DatasetIds == {PyInt("9"), PyStr(""), ListV}
ObjectIds == {PyStr("uuid4"), PyStr("nope"), PyInt("5")}
ExperimentIds == {PyStr("exp"), PyInt("5")}

\* What the remote service may answer to a pull-back request, and the body
\* that comes with each status.
Statuses == {200, 400, 403, 404}
Bodies(op, status) ==
    IF status = 200
    THEN IF op = "pull_params" THEN {"params_json"} ELSE {"gzip_pickle"}
    ELSE {"error_json", "error_html"}

\* ClientEvent members used by Tracker.
UserKinds == {"MODEL_PARAM", "EVAL_PARAM", "DURATION_PARAM", "DATASET_ID"}
LifecycleKinds == {"EXPERIMENT_START", "CODE_FILE", "EXPERIMENT_END"}

VARIABLES
    pc,              \* per tracker: "new", "putStart", "putCode", "ready"
    tracking,        \* per tracker: self.tracking
    experiment_end,  \* per tracker: number of assignments to self._experiment_end
    enqLog,          \* every event ever put, in put order; index = sequence_number
    queue,           \* event_queue: sequence numbers waiting, FIFO
    dpc,             \* per tracker: TrackerThread "none", "idle", "holding", "done"
    held,            \* per tracker: sequence number the dispatcher holds, 0 if none
    spins,           \* per tracker: sends of the held event that were not accepted
    ws,              \* per tracker: WSConnectionThread connection state
    wire,            \* every message the remote service received: [seq, via]
    dropped,         \* sequence numbers the dispatcher gave up on
    refused,         \* some send was answered "not sent"
    stopFlag,        \* per tracker: TrackerThread shutdown flag
    stopCalls,       \* per tracker: number of tracker_thread.stop() calls
    stopState,       \* per tracker: "none", "waiting", "drained", "timedout", "raised"
    stopSeq,         \* per tracker: Len(enqLog) when stop() was last called
    drainClock,      \* per tracker: ticks since stop() was called
    hookRan,         \* per tracker: the atexit callback has run
    observe,         \* whether API calls are recorded in call
    call             \* the API call made by the last step, with its outcome

vars == <<pc, tracking, experiment_end, enqLog, queue, dpc, held, spins, ws,
          wire, dropped, refused, stopFlag, stopCalls, stopState, stopSeq, drainClock,
          hookRan, observe, call>>

pipeVars == <<dpc, held, spins, ws, wire, dropped, refused>>
stopVars == <<stopFlag, stopCalls, stopState, stopSeq, drainClock>>

NoCall == [op |-> "none", t |-> "", name |-> NoneV, value |-> NoneV,
           epoch |-> NoneV, status |-> 0, outcome |-> ""]

InitState ==
    /\ pc = [t \in Trackers |-> "new"]
    /\ tracking = [t \in Trackers |-> TRUE]
    /\ experiment_end = [t \in Trackers |-> 0]
    /\ enqLog = <<>>
    /\ queue = <<>>
    /\ dpc = [t \in Trackers |-> "none"]
    /\ held = [t \in Trackers |-> 0]
    /\ spins = [t \in Trackers |-> 0]
    /\ ws = [t \in Trackers |-> "DISCONNECTED"]
    /\ wire = <<>>
    /\ dropped = {}
    /\ refused = FALSE
    /\ stopFlag = [t \in Trackers |-> FALSE]
    /\ stopCalls = [t \in Trackers |-> 0]
    /\ stopState = [t \in Trackers |-> "none"]
    /\ stopSeq = [t \in Trackers |-> 0]
    /\ drainClock = [t \in Trackers |-> 0]
    /\ hookRan = [t \in Trackers |-> FALSE]
    /\ call = NoCall

\* The whole program: user threads, dispatchers, transports.
Init == InitState /\ observe = FALSE

\* The Tracker API on its own, every call and its outcome recorded.
InitApi == InitState /\ observe = TRUE

\* --------------------------------------------------------- event_queue
Event(kind, t, n, v, e) ==
    [type |-> kind, owner |-> t, name |-> n, value |-> v, epoch |-> e]

\* event_queue.put(event): the module-level queue every Tracker shares.
Put(ev) ==
    /\ Len(enqLog) < MaxEvents
    /\ enqLog' = Append(enqLog, ev)
    /\ queue' = Append(queue, Len(enqLog) + 1)

\* Number of events the add_* calls have put.
UserPuts == Cardinality({i \in DOMAIN enqLog : enqLog[i].type \in UserKinds})

\* tracker_thread / web_socket exist on the tracker object.
Started(t) == dpc[t] # "none"

\* atexit.register(self._on_end) has been reached.
Registered(t) == pc[t] = "ready" /\ Started(t)


\* What an API call leaves in call: the call and how it ended.
Record(op, t, n, v, e, status, outcome) ==
    IF observe
    THEN [op |-> op, t |-> t, name |-> n, value |-> v, epoch |-> e,
          status |-> status, outcome |-> outcome]
    ELSE NoCall

\* -------------------------------------------- TrackerThread.stop (design 4.2)
\* stop(): set the shutdown flag and start waiting for the drain.
StopCall(t) ==
    /\ stopFlag' = [stopFlag EXCEPT ![t] = TRUE]
    /\ stopCalls' = [stopCalls EXCEPT ![t] = @ + 1]
    /\ stopState' = [stopState EXCEPT ![t] = "waiting"]
    /\ stopSeq' = [stopSeq EXCEPT ![t] = Len(enqLog')]
    /\ drainClock' = [drainClock EXCEPT ![t] = 0]

\* ------------------------------------------------------ Tracker.__init__
\* Tracker(key, host, tracking=trk): _initialize up to the start of the two
\* threads.  created is what rest.create_experiment returned.
Construct(t, trk, created) ==
    /\ pc[t] = "new"
    /\ tracking' = [tracking EXCEPT ![t] = trk]
    /\ IF trk /\ created
       THEN /\ ws' = [ws EXCEPT ![t] = "CONNECTING"]
            /\ dpc' = [dpc EXCEPT ![t] = "idle"]
            /\ pc' = [pc EXCEPT ![t] = "putStart"]
       ELSE /\ pc' = [pc EXCEPT ![t] = "ready"]
            /\ UNCHANGED <<ws, dpc>>
    /\ call' = NoCall
    /\ UNCHANGED <<experiment_end, enqLog, queue, held, spins, wire, dropped,
                   refused, stopVars, hookRan, observe>>

\* _initialize: event_queue.put(EXPERIMENT_START).
InitPutStart(t) ==
    /\ pc[t] = "putStart"
    /\ Put(Event("EXPERIMENT_START", t, NoneV, NoneV, NoneV))
    /\ pc' = [pc EXCEPT ![t] = "putCode"]
    /\ call' = NoCall
    /\ UNCHANGED <<tracking, experiment_end, pipeVars, stopVars, hookRan, observe>>

\* _initialize: event_queue.put(CODE_FILE), settings.current_tracker = self,
\* atexit.register(self._on_end); the constructor returns.
InitPutCodeFile(t) ==
    /\ pc[t] = "putCode"
    /\ Put(Event("CODE_FILE", t, NoneV, NoneV, NoneV))
    /\ pc' = [pc EXCEPT ![t] = "ready"]
    /\ call' = NoCall
    /\ UNCHANGED <<tracking, experiment_end, pipeVars, stopVars, hookRan, observe>>

\* -------------------------------------------------------- Tracker._on_end
\* self._experiment_end = now; put(EXPERIMENT_END); self.tracker_thread.stop().
\* A tracker whose _initialize returned early has no tracker_thread: the last
\* line raises AttributeError, after the event was put.
OnEndBody(t) ==
    /\ pc[t] = "ready"
    /\ stopState[t] # "waiting"
    /\ experiment_end' = [experiment_end EXCEPT ![t] = @ + 1]
    /\ Put(Event("EXPERIMENT_END", t, NoneV, NoneV, NoneV))
    /\ IF Started(t)
       THEN StopCall(t)
       ELSE /\ stopState' = [stopState EXCEPT ![t] = "raised"]
            /\ UNCHANGED <<stopFlag, stopCalls, stopSeq, drainClock>>
    /\ call' = NoCall
    /\ UNCHANGED <<pc, tracking, pipeVars, observe>>

\* tracker._on_end() called by the program.
OnEndExplicit(t) ==
    /\ experiment_end[t] - (IF hookRan[t] THEN 1 ELSE 0) < MaxExplicitEnd
    /\ OnEndBody(t)
    /\ UNCHANGED hookRan

\* The interpreter runs the callback registered with atexit, once.
OnEndHook(t) ==
    /\ Registered(t)
    /\ ~hookRan[t]
    /\ OnEndBody(t)
    /\ hookRan' = [hookRan EXCEPT ![t] = TRUE]

\* ------------------------------------------------------------ producers
\* The checks add_param makes before it looks at self.tracking.
AddParamCheck(n, v) ==
    IF ~IsStr(n) THEN "warn"
    ELSE IF n.v = "" THEN "warn"
    ELSE "ok"

\* add_metric without its empty-name check.
AddMetricCheckNoEmptyName(n, v, e) ==
    IF ~IsStr(n) THEN "warn"
    ELSE IF ~IsNumber(v) THEN "warn"
    ELSE IF e # NoneV /\ ~IsNumber(e) THEN "warn"
    ELSE "ok"

\* The checks of add_metric.
AddMetricCheck(n, v, e) ==
    IF ~IsStr(n) THEN "warn"
    ELSE IF n.v = "" THEN "warn"
    ELSE IF ~IsNumber(v) THEN "warn"
    ELSE IF e # NoneV /\ ~IsNumber(e) THEN "warn"
    ELSE "ok"

\* The checks of add_duration_at_epoch.
AddDurationCheck(n, v, e) ==
    IF ~IsStr(n) THEN "warn"
    ELSE IF n.v = "" THEN "warn"
    ELSE IF ~IsNumber(v) THEN "warn"
    ELSE IF e = NoneV THEN "warn"
    ELSE IF e # NoneV /\ ~IsNumber(e) THEN "warn"
    ELSE "ok"

\* The check of add_dataset_id: isinstance(id, (int, float, str)).
AddDatasetIdCheck(id) ==
    IF ~(id.ty \in {"int", "float", "str"}) THEN "warn" ELSE "ok"

\* The tail shared by the four producers: return on a failed check, return
\* if not self.tracking, else build the event and put it.
Produce(op, t, check, ev) ==
    /\ pc[t] = "ready"
    /\ LET outcome == IF check = "warn" THEN "rejected"
                      ELSE IF ~tracking[t] THEN "off"
                      ELSE "queued"
       IN /\ IF outcome = "queued"
             THEN /\ UserPuts < MaxUserEvents
                  /\ Put(ev)
             ELSE UNCHANGED <<enqLog, queue>>
          /\ call' = Record(op, t, ev.name, ev.value, ev.epoch, 0, outcome)
    /\ UNCHANGED <<pc, tracking, experiment_end, pipeVars, stopVars, hookRan,
                   observe>>

add_param(t, n, v) ==
    Produce("add_param", t, AddParamCheck(n, v),
            Event("MODEL_PARAM", t, n, v, NoneV))

add_metric(t, n, v, e) ==
    Produce("add_metric", t, AddMetricCheck(n, v, e),
            Event("EVAL_PARAM", t, n, v, e))

add_duration_at_epoch(t, n, v, e) ==
    Produce("add_duration_at_epoch", t, AddDurationCheck(n, v, e),
            Event("DURATION_PARAM", t, n, v, e))

add_dataset_id(t, id) ==
    Produce("add_dataset_id", t, AddDatasetIdCheck(id),
            Event("DATASET_ID", t, NoneV, id, NoneV))

\* ------------------------------------------------------------ pull-back
\* json.loads(request.text): an error body that is JSON decodes like a payload.
JsonLoads(body) ==
    CASE body = "params_json" -> "payload"
      [] body = "error_json" -> "error_payload"
      [] OTHER -> "exception"

\* pickle.loads(zlib.decompress(request.content, 31)): only a gzip stream
\* decompresses; anything else raises zlib.error.
Unpickle(body) ==
    IF body = "gzip_pickle" THEN "payload" ELSE "exception"

\* pull_params: <<status seen, outcome>>.  The url is built by str + id
\* before the isinstance check, which raises TypeError for a non-string.
PullParamsResult(t, id, status, body) ==
    IF ~IsStr(id) THEN <<0, "exception">>
    ELSE IF ~tracking[t] THEN <<0, "none">>
    ELSE IF status = 400 THEN <<status, "none">>
    ELSE IF status = 403 THEN <<status, "none">>
    ELSE <<status, JsonLoads(body)>>

\* pull_custom_object: <<status seen, outcome>>.  Status 400 is logged and
\* the body is decompressed all the same.
PullCustomObjectResult(t, id, status, body) ==
    IF ~IsStr(id) THEN <<0, "none">>
    ELSE IF id.v # "uuid4" THEN <<0, "none">>
    ELSE IF ~tracking[t] THEN <<0, "none">>
    ELSE <<status, Unpickle(body)>>

Pull(op, t, id, res) ==
    /\ pc[t] = "ready"
    /\ call' = Record(op, t, NoneV, id, NoneV, res[1], res[2])
    /\ UNCHANGED <<pc, tracking, experiment_end, enqLog, queue, pipeVars,
                   stopVars, hookRan, observe>>

pull_params(t, id, status, body) ==
    Pull("pull_params", t, id, PullParamsResult(t, id, status, body))

pull_custom_object(t, id, status, body) ==
    Pull("pull_custom_object", t, id, PullCustomObjectResult(t, id, status, body))

\* ------------------------------------- WSConnectionThread (design 4.3)
\* connect success.
WsConnect(t) ==
    /\ ws[t] \in {"CONNECTING", "RECONNECTING"}
    /\ ws' = [ws EXCEPT ![t] = "CONNECTED"]
    /\ call' = NoCall
    /\ UNCHANGED <<pc, tracking, experiment_end, enqLog, queue, dpc, held,
                   spins, wire, dropped, refused, stopVars, hookRan, observe>>

\* socket error, or a failed connect: retry with backoff.
WsError(t) ==
    /\ ws[t] \in {"CONNECTING", "CONNECTED"}
    /\ ws' = [ws EXCEPT ![t] = "RECONNECTING"]
    /\ call' = NoCall
    /\ UNCHANGED <<pc, tracking, experiment_end, enqLog, queue, dpc, held,
                   spins, wire, dropped, refused, stopVars, hookRan, observe>>

\* ------------------------------------------ TrackerThread (design 4.2)
\* The dispatcher loop takes the next event off the shared event_queue.
Dequeue(t) ==
    /\ dpc[t] = "idle"
    /\ queue # <<>>
    /\ held' = [held EXCEPT ![t] = Head(queue)]
    /\ queue' = Tail(queue)
    /\ spins' = [spins EXCEPT ![t] = 0]
    /\ dpc' = [dpc EXCEPT ![t] = "holding"]
    /\ call' = NoCall
    /\ UNCHANGED <<pc, tracking, experiment_end, enqLog, ws, wire, dropped,
                   refused, stopVars, hookRan, observe>>

\* Whether the dispatcher gives up on the held event after this failed send.
GiveUp(n) == n >= MaxSpins

\* One delivery attempt of the held event on this tracker's own web socket.
Deliver(t) ==
    /\ dpc[t] = "holding"
    /\ IF ws[t] = "CONNECTED"
       THEN /\ wire' = Append(wire, [seq |-> held[t], via |-> t])
            /\ held' = [held EXCEPT ![t] = 0]
            /\ dpc' = [dpc EXCEPT ![t] = "idle"]
            /\ UNCHANGED <<spins, dropped, refused>>
       ELSE IF ws[t] = "CLOSED"
       THEN /\ dropped' = dropped \cup {held[t]}
            /\ held' = [held EXCEPT ![t] = 0]
            /\ dpc' = [dpc EXCEPT ![t] = "idle"]
            /\ UNCHANGED <<spins, wire, refused>>
       ELSE /\ IF GiveUp(spins[t] + 1)
               THEN /\ dropped' = dropped \cup {held[t]}
                    /\ held' = [held EXCEPT ![t] = 0]
                    /\ dpc' = [dpc EXCEPT ![t] = "idle"]
                    /\ spins' = [spins EXCEPT ![t] = 0]
               ELSE /\ spins' = [spins EXCEPT ![t] = @ + 1]
                    /\ UNCHANGED <<held, dpc, dropped>>
            /\ refused' = TRUE
            /\ UNCHANGED wire
    /\ call' = NoCall
    /\ UNCHANGED <<pc, tracking, experiment_end, enqLog, queue, ws, stopVars,
                   hookRan, observe>>

\* The loop ends once the shutdown flag is set and the queue is empty.
DispatcherExit(t) ==
    /\ dpc[t] = "idle"
    /\ stopFlag[t]
    /\ queue = <<>>
    /\ dpc' = [dpc EXCEPT ![t] = "done"]
    /\ call' = NoCall
    /\ UNCHANGED <<pc, tracking, experiment_end, enqLog, queue, held, spins,
                   ws, wire, dropped, refused, stopVars, hookRan, observe>>

\* Time passes for a stop() that is waiting for the drain.
Tick(t) ==
    /\ stopState[t] = "waiting"
    /\ drainClock[t] < DrainDeadline
    /\ drainClock' = [drainClock EXCEPT ![t] = @ + 1]
    /\ call' = NoCall
    /\ UNCHANGED <<pc, tracking, experiment_end, enqLog, queue, pipeVars,
                   stopFlag, stopCalls, stopState, stopSeq, hookRan, observe>>

\* A stop() that waits for the drain with no deadline.
DrainOverNoDeadline(t) == dpc[t] = "done"

\* stop() may return: the queue was drained, or the drain deadline elapsed.
DrainOver(t) == dpc[t] = "done" \/ drainClock[t] >= DrainDeadline

\* stop() closes the transport and returns.
StopReturn(t) ==
    /\ stopState[t] = "waiting"
    /\ DrainOver(t)
    /\ stopState' = [stopState EXCEPT ![t] =
                        IF dpc[t] = "done" THEN "drained" ELSE "timedout"]
    /\ ws' = [ws EXCEPT ![t] = "CLOSED"]
    /\ call' = NoCall
    /\ UNCHANGED <<pc, tracking, experiment_end, enqLog, queue, dpc, held,
                   spins, wire, dropped, refused, stopFlag, stopCalls, stopSeq,
                   drainClock, hookRan, observe>>

\* ------------------------------------------------------- specifications
\* The steps of src/modelchimp/__init__.py on tracker t, the arguments of
\* its calls drawn from the given sets.
TrackerStep(t, names, values, epochs, dsIds, objIds, expIds, statuses) ==
    \/ \E trk \in BOOLEAN, created \in BOOLEAN : Construct(t, trk, created)
    \/ InitPutStart(t)
    \/ InitPutCodeFile(t)
    \/ OnEndExplicit(t)
    \/ OnEndHook(t)
    \/ \E n \in names, v \in values : add_param(t, n, v)
    \/ \E n \in names, v \in values, e \in epochs : add_metric(t, n, v, e)
    \/ \E n \in names, v \in values, e \in epochs :
           add_duration_at_epoch(t, n, v, e)
    \/ \E id \in dsIds : add_dataset_id(t, id)
    \/ \E id \in expIds, st \in statuses :
           \E b \in Bodies("pull_params", st) : pull_params(t, id, st, b)
    \/ \E id \in objIds, st \in statuses :
           \E b \in Bodies("pull_custom_object", st) :
               pull_custom_object(t, id, st, b)

\* The steps of the background threads of tracker t and of its stop().
ThreadStep(t) ==
    \/ WsConnect(t)
    \/ WsError(t)
    \/ Dequeue(t)
    \/ Deliver(t)
    \/ DispatcherExit(t)
    \/ Tick(t)
    \/ StopReturn(t)

\* The program that builds one Tracker, A: its calls (one accepted and one
\* rejected call of each kind, the pipeline does not read the payload) and
\* its threads.
Next ==
    \E t \in {"A"} :
        \/ TrackerStep(t, {PyStr("lr"), PyStr("")}, {PyInt("1")},
                       {PyFloat("1.5")}, {PyInt("9")}, {PyStr("uuid4")},
                       {PyStr("exp")}, {200})
        \/ ThreadStep(t)

Spec == Init /\ [][Next]_vars

\* Time passes and a stop() that may return does return.
Fairness == \A t \in Trackers : WF_vars(Tick(t)) /\ WF_vars(StopReturn(t))

LiveSpec == Init /\ [][Next]_vars /\ Fairness

\* The Tracker API on its own, every argument tuple, each call recorded.
NextApi ==
    \E t \in {"A"} :
        TrackerStep(t, Names, Values, Epochs, DatasetIds, ObjectIds,
                    ExperimentIds, Statuses)

SpecApi == InitApi /\ [][NextApi]_vars

\* The program that builds two Trackers, A and B, in the one process and
\* lets both run to the exit hook.
NextTwo ==
    \E t \in Trackers :
        \/ \E trk \in BOOLEAN, created \in BOOLEAN : Construct(t, trk, created)
        \/ InitPutStart(t)
        \/ InitPutCodeFile(t)
        \/ OnEndHook(t)
        \/ ThreadStep(t)

SpecTwo == Init /\ [][NextTwo]_vars

\* ------------------------------------------------------------ properties
\* The events tracker t has put, in put order.
OwnLog(t) == SelectSeq(enqLog, LAMBDA e : e.owner = t)

\* How many messages on the wire carry sequence number n.
Sends(n) == Cardinality({i \in DOMAIN wire : wire[i].seq = n})

\* C1 (Ordering): the remote service never receives an event with a larger
\* sequence number before one with a smaller sequence number; the messages on
\* the wire are in enqueue order.
C1_SendOrderIsEnqueueOrder ==
    \A i, j \in DOMAIN wire : i < j => wire[i].seq < wire[j].seq

\* C2 (Drain completeness): when stop() returns after a drain over a
\* transport that was reachable throughout (every send was accepted, nothing
\* was dropped, every other socket of the process is connected), every event put before stop() was called, EXPERIMENT_END
\* included, has been sent exactly once.
C2_DrainCompleteness ==
    \A t \in Trackers :
        (/\ stopState[t] = "drained"
         /\ ~refused
         /\ dropped = {}
         /\ \A u \in Trackers \ {t} : Started(u) => ws[u] = "CONNECTED")
            => \A n \in 1..stopSeq[t] : Sends(n) = 1

\* C3 (Shutdown once): over any sequence of _on_end invocations a tracker
\* puts at most one EXPERIMENT_END, assigns _experiment_end at most once and
\* calls stop() at most once.
C3_ShutdownRunsOnce ==
    \A t \in Trackers :
        /\ Cardinality({i \in DOMAIN enqLog :
               enqLog[i].owner = t /\ enqLog[i].type = "EXPERIMENT_END"}) <= 1
        /\ experiment_end[t] <= 1
        /\ stopCalls[t] <= 1

\* C4 (One queue, one consumer per experiment): an event put by the tracker
\* of one experiment is never taken by the dispatcher of another experiment
\* nor sent on another experiment's streaming channel.
C4_NoCrossExperimentDelivery ==
    /\ \A t \in Trackers : held[t] # 0 => enqLog[held[t]].owner = t
    /\ \A i \in DOMAIN wire : enqLog[wire[i].seq].owner = wire[i].via

\* C5 (Pull-back error surfacing): a pull_params or pull_custom_object call
\* that the service answered with not-found (400, the status the code logs as
\* a wrong id) or forbidden (403) returns "no result": it neither raises nor
\* decodes the error body.
C5_PullErrorIsNoResult ==
    (call.op \in {"pull_params", "pull_custom_object"}
        /\ call.status \in {400, 403})
            => call.outcome = "none"

\* C6 (Retry without overtaking): while a dispatcher holds an event whose
\* send was not accepted, no later-enqueued event reaches the wire.
C6_NoOvertakingWhileHeld ==
    [][\A t \in Trackers :
          (dpc[t] = "holding" /\ spins[t] > 0)
              => \A i \in DOMAIN wire' :
                     i > Len(wire) => wire'[i].seq <= held[t]]_vars

\* C7 (Shutdown terminates): a stop() that was called eventually returns,
\* also when the transport never connects and the queue still holds events.
C7_StopReturns ==
    \A t \in Trackers :
        (stopState[t] = "waiting") ~> (stopState[t] # "waiting")

\* A stop() returned on the deadline with events still queued and nothing
\* ever sent.
C7_Witness ==
    \E t \in Trackers :
        stopState[t] = "timedout" /\ queue # <<>> /\ wire = <<>>

\* What counts as passing validation, per call.
NameOk(c) == c.name.ty = "str" /\ c.name.v # ""
NumberOk(x) == x.ty = "int" \/ x.ty = "float"
PassesValidation(c) ==
    CASE c.op = "add_param" -> NameOk(c)
      [] c.op = "add_metric" ->
            NameOk(c) /\ NumberOk(c.value) /\ (c.epoch = NoneV \/ NumberOk(c.epoch))
      [] c.op = "add_duration_at_epoch" ->
            NameOk(c) /\ NumberOk(c.value) /\ NumberOk(c.epoch)
      [] c.op = "add_dataset_id" -> c.value.ty \in {"int", "float", "str"}
      [] OTHER -> FALSE

KindOf(op) ==
    CASE op = "add_param" -> "MODEL_PARAM"
      [] op = "add_metric" -> "EVAL_PARAM"
      [] op = "add_duration_at_epoch" -> "DURATION_PARAM"
      [] OTHER -> "DATASET_ID"

\* C8 (Rejected calls leave the queue unchanged): an add_* call whose
\* arguments fail validation, or made with tracking disabled, puts nothing;
\* one that passes with tracking enabled appends exactly one event of its
\* kind carrying the given name, value and epoch.
C8_RejectedCallsLeaveQueue ==
    [][call'.op \in {"add_param", "add_metric", "add_duration_at_epoch",
                     "add_dataset_id"}
          => IF PassesValidation(call') /\ tracking[call'.t]
             THEN /\ enqLog' = Append(enqLog,
                          [type |-> KindOf(call'.op), owner |-> call'.t,
                           name |-> call'.name, value |-> call'.value,
                           epoch |-> call'.epoch])
                  /\ queue' = Append(queue, Len(enqLog) + 1)
             ELSE /\ enqLog' = enqLog
                  /\ queue' = queue]_vars

\* A call was rejected by validation on a tracking tracker whose events are
\* still queued.
C8_Witness ==
    /\ call.op = "add_duration_at_epoch"
    /\ call.outcome = "rejected"
    /\ call.epoch = NoneV
    /\ tracking[call.t]
    /\ Len(queue) >= 3

\* C9 (No stranded events): no producer call puts an event for a tracker
\* whose dispatcher was never started.
C9_NoEventWithoutDispatcher ==
    \A i \in DOMAIN enqLog :
        enqLog[i].type \in UserKinds => Started(enqLog[i].owner)

\* C10 (Lifecycle framing): a tracker whose bootstrap succeeded puts
\* EXPERIMENT_START first and CODE_FILE second, and no producer call puts an
\* event after EXPERIMENT_END.
C10_LifecycleFraming ==
    \A t \in Trackers :
        Started(t) =>
            LET L == OwnLog(t)
            IN /\ Len(L) >= 1 => L[1].type = "EXPERIMENT_START"
               /\ Len(L) >= 2 => L[2].type = "CODE_FILE"
               /\ \A i, j \in DOMAIN L :
                      (i < j /\ L[i].type = "EXPERIMENT_END")
                          => L[j].type \notin UserKinds

=============================================================================
